---- MODULE Spec2Model ----
(***************************************************************************)
(* Model of WeatherNote/climate-analog-finder, src/logic.py:               *)
(*   get_climate_indices  - nine fetch-and-parse blocks merging into one   *)
(*                          (Year, Month) keyed map, then the DataFrame    *)
(*   search_analog_years  - month filter, dropna, PDO phase filter,        *)
(*                          Euclidean score, sort, head(top_n)             *)
(*                                                                         *)
(* Conventions.                                                            *)
(*  - A whitespace-delimited token is a record [k, v]:                     *)
(*      k = "digits"  ASCII digits only ("1950"): str.isdigit() is True,   *)
(*                    int() and float() succeed, value v                   *)
(*      k = "int"     a signed integer literal ("+1951", "-99"): isdigit() *)
(*                    is False, int() and float() succeed, value v         *)
(*      k = "dec"     a decimal literal ("-99.9", "0.5"): isdigit() False, *)
(*                    int() raises ValueError, float() succeeds, value v   *)
(*      k = "word"    anything else: all three fail; v = 1 iff the token   *)
(*                    contains the substring "Year"                        *)
(*  - Index values are integers (a fixed-point reading of the floats).     *)
(*  - A missing DataFrame cell (NaN) is an index absent from the row's     *)
(*    vals function.                                                       *)
(*  - Score is represented by its square (Score2): sqrt is injective and   *)
(*    monotone on the non-negative numbers, so equality and order of       *)
(*    Score are equality and order of Score2.                              *)
(***************************************************************************)
EXTENDS Integers, Sequences, FiniteSets, TLC

VARIABLES pc, todo, resp, data_map, log, df, query, result

vars == <<pc, todo, resp, data_map, log, df, query, result>>

(***************************************************************************)
(* Bounds and program constants                                            *)
(***************************************************************************)
\* longest source text, in lines, of the single-source specification
MaxLines == 2
\* default of the start_year parameter
start_year == 1950
\* range(1, 13): the month positions of a data row
NMonths == 12
\* len(parts) >= 13
MinParts == 13

(***************************************************************************)
(* Tokens                                                                  *)
(***************************************************************************)
Tok(k, v) == [k |-> k, v |-> v]

\* str.isdigit()
IsDigit(t) == t.k = "digits"

\* int(t) succeeds
IntOk(t) == t.k \in {"digits", "int"}

\* float(t) succeeds
FloatOk(t) == t.k \in {"digits", "int", "dec"}

\* "Year" in line: the substring has no blank, so it lies inside one token
HasYear(parts) == \E i \in 1..Len(parts) : parts[i].k = "word" /\ parts[i].v = 1

(***************************************************************************)
(* The nine sources, in the order the code processes them                  *)
(*   guard: "digit13"  parts and parts[0].isdigit() and len(parts) >= 13   *)
(*          "noYear13" "Year" not in line, len(parts) >= 13, int(parts[0]) *)
(*          "digit"    parts and parts[0].isdigit(), m <= len(parts) - 1   *)
(*   keep:  the condition under which a parsed value is stored             *)
(***************************************************************************)
Sources ==
  << [name |-> "ONI",      guard |-> "digit13",  keep |-> "gt-90",  html |-> FALSE],
     [name |-> "IOD",      guard |-> "digit13",  keep |-> "gt-90",  html |-> FALSE],
     [name |-> "PDO",      guard |-> "noYear13", keep |-> "lt90",   html |-> FALSE],
     [name |-> "NinoWest", guard |-> "digit",    keep |-> "lt90",   html |-> TRUE],
     [name |-> "NAO",      guard |-> "digit",    keep |-> "all",    html |-> FALSE],
     [name |-> "PNA",      guard |-> "digit",    keep |-> "all",    html |-> FALSE],
     [name |-> "AO",       guard |-> "digit",    keep |-> "all",    html |-> FALSE],
     [name |-> "QBO30",    guard |-> "digit",    keep |-> "gt-900", html |-> FALSE],
     [name |-> "QBO50",    guard |-> "digit",    keep |-> "gt-900", html |-> FALSE] >>

NSources == Len(Sources)

IndexNames == {Sources[i].name : i \in 1..NSources}

KeepInclusive(rule, val) ==
  CASE rule = "gt-90"  -> val >= -90
    [] rule = "lt90"   -> val <= 90
    [] rule = "gt-900" -> val >= -900
    [] OTHER           -> TRUE

\* the sentinel test guarding the store
Keep(rule, val) ==
  CASE rule = "gt-90"  -> val > -90
    [] rule = "lt90"   -> val < 90
    [] rule = "gt-900" -> val > -900
    [] OTHER           -> TRUE

(***************************************************************************)
(* data_map: a Python dict, i.e. an insertion-ordered sequence of entries  *)
(* [key |-> <<year, month>>, vals |-> [index -> value]]                    *)
(***************************************************************************)
HasKey(dm, key) == \E i \in 1..Len(dm) : dm[i].key = key

SetVal(vals, idx, val) ==
  [c \in (DOMAIN vals) \cup {idx} |-> IF c = idx THEN val ELSE vals[c]]

StoreReplacing(dm, key, idx, val) ==
  LET dm1 == IF HasKey(dm, key) THEN dm
             ELSE Append(dm, [key |-> key, vals |-> <<>>])
  IN  [i \in 1..Len(dm1) |->
         IF dm1[i].key = key
         THEN [dm1[i] EXCEPT !.vals = SetVal(<<>>, idx, val)]
         ELSE dm1[i]]

\* if (year, m) not in data_map: data_map[(year, m)] = {}
\* data_map[(year, m)][idx] = val
Store(dm, key, idx, val) ==
  LET dm1 == IF HasKey(dm, key) THEN dm
             ELSE Append(dm, [key |-> key, vals |-> <<>>])
  IN  [i \in 1..Len(dm1) |->
         IF dm1[i].key = key
         THEN [dm1[i] EXCEPT !.vals = SetVal(dm1[i].vals, idx, val)]
         ELSE dm1[i]]

(***************************************************************************)
(* One data row                                                            *)
(***************************************************************************)
\* the inner loop: for m in range(1, 13), with its try/except around float()
\* (the test on dm1 has it computed before the next month is entered)
RECURSIVE ParseMonths(_, _, _, _, _)
ParseMonths(dm, src, parts, year, m) ==
  IF m > NMonths THEN dm
  ELSE LET inRange == src.guard # "digit" \/ m <= Len(parts) - 1
           tok     == parts[m + 1]
           dm1     == IF inRange /\ FloatOk(tok) /\ Keep(src.keep, tok.v)
                      THEN Store(dm, <<year, m>>, src.name, tok.v)
                      ELSE dm
       IN  IF Len(dm1) >= 0 THEN ParseMonths(dm1, src, parts, year, m + 1) ELSE dm1

ReachesInt13(src, parts) ==
  CASE src.guard = "noYear13" -> ~HasYear(parts) /\ Len(parts) >= MinParts
    [] OTHER                  -> Len(parts) > 0 /\ IsDigit(parts[1])
                                 /\ Len(parts) >= MinParts

\* the line passes the row test of its source and reaches int(parts[0])
ReachesInt(src, parts) ==
  CASE src.guard = "digit13"  -> Len(parts) > 0 /\ IsDigit(parts[1])
                                 /\ Len(parts) >= MinParts
    [] src.guard = "noYear13" -> ~HasYear(parts) /\ Len(parts) >= MinParts
    [] OTHER                  -> Len(parts) > 0 /\ IsDigit(parts[1])

\* int(parts[0]) raises ValueError (only the PDO block calls it unguarded)
LineRaises(src, parts) == ReachesInt(src, parts) /\ ~IntOk(parts[1])

\* the line's month positions are examined
Accepted(src, parts, sy) ==
  ReachesInt(src, parts) /\ IntOk(parts[1]) /\ parts[1].v >= sy

\* the body of "for line in lines" for a line that does not raise
ParseLine(dm, src, parts, sy) ==
  IF Accepted(src, parts, sy)
  THEN ParseMonths(dm, src, parts, parts[1].v, 1)
  ELSE dm

\* for line in lines: ... ; an exception leaves the loop with what was stored
RECURSIVE ParseLines(_, _, _, _, _)
ParseLines(dm, src, lines, sy, i) ==
  IF i > Len(lines) THEN [dm |-> dm, raised |-> FALSE]
  ELSE IF LineRaises(src, lines[i]) THEN [dm |-> dm, raised |-> TRUE]
  ELSE LET dm1 == ParseLine(dm, src, lines[i], sy)
       IN  IF Len(dm1) >= 0 THEN ParseLines(dm1, src, lines, sy, i + 1)
           ELSE [dm |-> dm1, raised |-> FALSE]

(***************************************************************************)
(* One fetch-and-parse block: try: requests.get ... except Exception       *)
(* A response is [exc, status, pre, lines]: exc = requests.get raised;     *)
(* status = the HTTP status code, which the code never reads; pre = the    *)
(* body holds a <pre> block (lines are then the lines inside it, else the  *)
(* lines of the body).                                                     *)
(***************************************************************************)
SourceBlock(dm, src, r, sy) ==
  IF r.exc THEN [dm |-> dm, raised |-> TRUE]
  ELSE IF src.html /\ ~r.pre THEN [dm |-> dm, raised |-> FALSE]
  ELSE ParseLines(dm, src, r.lines, sy, 1)

(***************************************************************************)
(* The DataFrame: [cols |-> set of column names, rows |-> sequence of      *)
(* [Year, Month, vals]]; pd.DataFrame([]) has no column and no row.        *)
(***************************************************************************)
EmptyFrame == [cols |-> {}, rows |-> <<>>]

\* (Year, Month) order of sort_values(['Year', 'Month'])
YMLess(a, b) == a.Year < b.Year \/ (a.Year = b.Year /\ a.Month < b.Month)

\* x put behind every row that is not greater than it (a stable insertion)
InsertYM(sorted, x) ==
  LET n == Cardinality({i \in 1..Len(sorted) : ~YMLess(x, sorted[i])})
  IN  SubSeq(sorted, 1, n) \o <<x>> \o SubSeq(sorted, n + 1, Len(sorted))

RECURSIVE SortYMFrom(_, _, _)
SortYMFrom(rows, i, acc) ==
  IF i > Len(rows) THEN acc
  ELSE LET acc1 == InsertYM(acc, rows[i])
       IN  IF Len(acc1) >= 0 THEN SortYMFrom(rows, i + 1, acc1) ELSE acc1

SortByYear(rows) ==
  SortYMFrom([i \in 1..Len(rows) |-> [rows[i] EXCEPT !.Month = 1]], 1, <<>>)

\* df.sort_values(['Year', 'Month'])
SortYM(rows) == SortYMFrom(rows, 1, <<>>)

\* rows = [...]; df = pd.DataFrame(rows); sort; select the existing columns
Frame(dm) ==
  IF Len(dm) = 0 THEN EmptyFrame
  ELSE [cols |-> {"Year", "Month"} \cup UNION {DOMAIN dm[i].vals : i \in 1..Len(dm)},
        rows |-> SortYM([i \in 1..Len(dm) |->
                           [Year |-> dm[i].key[1], Month |-> dm[i].key[2],
                            vals |-> dm[i].vals]])]

(***************************************************************************)
(* Source texts                                                            *)
(***************************************************************************)
Fill(n, t) == [i \in 1..n |-> t]

\* a blank line
Blank == <<>>
\* "Year Jan Feb ... Dec"
HeaderYear == <<Tok("word", 1)>> \o Fill(NMonths, Tok("word", 0))
\* thirteen words, none holding "Year"
HeaderWords == Fill(MinParts, Tok("word", 0))
\* a short title or footer
Title == Fill(3, Tok("word", 0))
\* a full row of the year before start_year
Early == <<Tok("digits", start_year - 1)>> \o Fill(NMonths, Tok("dec", 5))
\* a full row of good values
Full50 == <<Tok("digits", start_year)>> \o Fill(NMonths, Tok("dec", 5))
\* a full row holding every sentinel, both sides of every threshold, and a
\* token that is no number
Mixed50 ==
  <<Tok("digits", start_year),
    Tok("dec", -999), Tok("dec", -900), Tok("dec", -899), Tok("dec", -90),
    Tok("dec", -89), Tok("dec", 89), Tok("digits", 90), Tok("dec", 99),
    Tok("word", 0), Tok("digits", 0), Tok("dec", 7), Tok("int", -99)>>
\* the running year: three months so far
Short51 == <<Tok("digits", start_year + 1)>> \o Fill(3, Tok("dec", 7))
\* twelve tokens: the year and eleven months
Eleven51 == <<Tok("digits", start_year + 1)>> \o Fill(NMonths - 1, Tok("dec", 8))
\* fourteen tokens: the year, twelve months and an annual mean
Long51 == <<Tok("digits", start_year + 1)>> \o Fill(NMonths + 1, Tok("dec", 9))
\* a year written with a sign: int() reads it, isdigit() is False
Plus51 == <<Tok("int", start_year + 1)>> \o Fill(NMonths, Tok("dec", 6))

LinePool ==
  {Blank, HeaderYear, HeaderWords, Title, Early, Full50, Mixed50, Short51,
   Eleven51, Long51, Plus51}

RECURSIVE SeqsUpTo(_, _)
SeqsUpTo(S, n) ==
  IF n = 0 THEN {<<>>}
  ELSE LET shorter == SeqsUpTo(S, n - 1)
       IN  shorter \cup {Append(t, x) : t \in shorter, x \in S}

Texts == SeqsUpTo(LinePool, MaxLines)

\* requests.get raised (no connection, timeout)
RFail == [exc |-> TRUE, status |-> 0, pre |-> FALSE, lines |-> <<>>]
\* a response with a body
RBody(status, pre, lines) ==
  [exc |-> FALSE, status |-> status, pre |-> pre, lines |-> lines]

NoResp == [exc |-> FALSE, status |-> 0, pre |-> FALSE, lines |-> <<>>]

\* every response of the single-source specification
RichResponses(s) ==
  {RFail} \cup {RBody(200, p, t) : p \in (IF Sources[s].html THEN BOOLEAN ELSE {FALSE}),
                                  t \in Texts}

\* the responses of the nine-source specification
Responses(s) ==
  LET src  == Sources[s]
      base == {RFail, RBody(200, src.html, <<Short51, Full50>>)}
  IN  CASE src.name = "ONI"      -> base \cup {RBody(200, FALSE, <<Mixed50, Long51>>)}
        [] src.name = "PDO"      -> base \cup {RBody(200, FALSE, <<HeaderYear, Mixed50>>),
                                              RBody(200, FALSE, <<Full50, HeaderWords, Long51>>)}
        [] src.name = "NinoWest" -> base \cup {RBody(200, FALSE, <<Full50>>)}
        [] src.name = "NAO"      -> base \cup {RBody(200, FALSE, <<Mixed50>>)}
        [] src.name = "AO"       -> base \cup {RBody(404, FALSE, <<Title>>),
                                              RBody(503, FALSE, <<Full50>>)}
        [] OTHER                 -> base

(***************************************************************************)
(* get_climate_indices as a state machine                                  *)
(*   pc = "fetch": todo lists the blocks still to run                      *)
(*   pc = "frame": all blocks ran, the DataFrame is to be built            *)
(*   pc = "done":  df is the returned table                                *)
(***************************************************************************)
\* one try/except block: the response r arrives and is parsed into data_map
Block(s, r) ==
  LET out == SourceBlock(data_map, Sources[s], r, start_year)
  IN  /\ pc = "fetch"
      /\ todo # <<>>
      /\ s = Head(todo)
      /\ resp' = [resp EXCEPT ![s] = r]
      /\ data_map' = out.dm
      /\ log' = IF out.raised THEN log \cup {s} ELSE log
      /\ todo' = Tail(todo)
      /\ pc' = IF Tail(todo) = <<>> THEN "frame" ELSE "fetch"
      /\ UNCHANGED <<df, query, result>>

FetchParse == \E s \in 1..NSources : \E r \in Responses(s) : Block(s, r)

FetchParseOne == \E s \in 1..NSources : \E r \in RichResponses(s) : Block(s, r)

BuildFrame ==
  /\ pc = "frame"
  /\ df' = Frame(data_map)
  /\ pc' = "done"
  /\ UNCHANGED <<todo, resp, data_map, log, query, result>>

NoQuery == [month |-> 0, targets |-> <<>>, phase |-> "", threshold |-> 0, top_n |-> 0]
NoResult == [raised |-> FALSE, cols |-> {}, rows |-> <<>>]

Init ==
  /\ pc = "fetch"
  /\ todo = [i \in 1..NSources |-> i]
  /\ resp = [i \in 1..NSources |-> NoResp]
  /\ data_map = <<>>
  /\ log = {}
  /\ df = EmptyFrame
  /\ query = NoQuery
  /\ result = NoResult

Next == FetchParse \/ BuildFrame

\* get_climate_indices on nine sources
Spec == Init /\ [][Next]_vars

InitParse ==
  /\ pc = "fetch"
  /\ todo \in {<<s>> : s \in 1..NSources}
  /\ resp = [i \in 1..NSources |-> NoResp]
  /\ data_map = <<>>
  /\ log = {}
  /\ df = EmptyFrame
  /\ query = NoQuery
  /\ result = NoResult

NextParse == FetchParseOne \/ BuildFrame

\* one fetch-and-parse block alone, on every text of the pool
SpecParse == InitParse /\ [][NextParse]_vars

(***************************************************************************)
(* The blocks of get_climate_indices run in any order                      *)
(***************************************************************************)
MaxBlocks == 2

\* the sequences of at most n distinct blocks
RECURSIVE OrdersUpTo(_)
OrdersUpTo(n) ==
  IF n = 0 THEN {<<>>}
  ELSE LET shorter == OrdersUpTo(n - 1)
       IN  shorter \cup {Append(t, x) : t \in shorter,
                                        x \in 1..NSources}

Distinct(t) == \A i \in 1..Len(t) : \A j \in 1..Len(t) : i # j => t[i] # t[j]

Orders == {t \in OrdersUpTo(MaxBlocks) : t # <<>> /\ Distinct(t)}

\* the responses of the any-order specification: a failed request, years
\* out of order, a year given twice, and for PDO a text that ends the block
OrderResponses(s) ==
  LET src  == Sources[s]
      base == {RFail, RBody(200, src.html, <<Short51, Full50>>),
                      RBody(200, src.html, <<Full50, Mixed50>>)}
  IN  IF src.name = "PDO"
      THEN base \cup {RBody(200, FALSE, <<Full50, HeaderWords, Long51>>)}
      ELSE base

FetchParseAny == \E s \in 1..NSources : \E r \in OrderResponses(s) : Block(s, r)

\* the blocks of todo run in the order of todo; a block left out adds
\* nothing to the map, as a block whose request failed
InitOrder ==
  /\ pc = "fetch"
  /\ todo \in Orders
  /\ resp = [i \in 1..NSources |-> NoResp]
  /\ data_map = <<>>
  /\ log = {}
  /\ df = EmptyFrame
  /\ query = NoQuery
  /\ result = NoResult

NextOrder == FetchParseAny \/ BuildFrame

\* the fetch-and-parse blocks permuted, then the DataFrame build
SpecOrder == InitOrder /\ [][NextOrder]_vars

(***************************************************************************)
(* search_analog_years                                                     *)
(* A query is [month, targets, phase, threshold, top_n]; targets is a      *)
(* function from index names to target values (the dict).  The result is   *)
(* [raised, cols, rows]: raised = the call ended in an exception; a result *)
(* row is [Year, Month, vals, diffs, Score2].                              *)
(***************************************************************************)
\* df[df['Month'] == target_month]
MonthRows(d, month) == SelectSeq(d.rows, LAMBDA r : r.Month = month)

\* required_cols: the target keys, and PDO when the table has the column
RequiredCols(d, targets) ==
  (DOMAIN targets) \cup (IF "PDO" \in d.cols THEN {"PDO"} ELSE {})

\* {k: v for k, v in targets.items() if k in df.columns}
ValidTargets(d, targets) == [k \in (DOMAIN targets) \cap d.cols |-> targets[k]]

NoValidTargetsNever(valid) == FALSE

\* if not valid_targets
NoValidTargets(valid) == DOMAIN valid = {}

DropNaAllRequired(d, rows, required) ==
  SelectSeq(rows, LAMBDA r : required \subseteq DOMAIN r.vals)

\* candidates.dropna(subset=[c for c in required_cols if c in candidates.columns])
DropNa(d, rows, required) ==
  SelectSeq(rows, LAMBDA r : (required \cap d.cols) \subseteq DOMAIN r.vals)

PhaseKeepStrict(p, phase, t) ==
  CASE phase = "pos" -> p > t
    [] phase = "neg" -> p < -t
    [] phase = "0"   -> p > -t /\ p < t
    [] OTHER         -> TRUE

\* the three branches on pdo_phase; any other phase filters nothing
PhaseKeep(p, phase, t) ==
  CASE phase = "pos" -> p >= t
    [] phase = "neg" -> p <= -t
    [] phase = "0"   -> p > -t /\ p < t
    [] OTHER         -> TRUE

\* if 'PDO' in candidates.columns: ...
PhaseFilter(d, rows, phase, t) ==
  IF "PDO" \in d.cols
  THEN SelectSeq(rows, LAMBDA r : PhaseKeep(r.vals["PDO"], phase, t))
  ELSE rows

\* candidates[f'{col}_Diff'] = candidates[col] - target_val
Diffs(r, valid) == [c \in DOMAIN valid |-> r.vals[c] - valid[c]]

RECURSIVE SumSq(_, _)
SumSq(f, S) ==
  IF S = {} THEN 0
  ELSE LET c == CHOOSE x \in S : TRUE
       IN  f[c] * f[c] + SumSq(f, S \ {c})

ScoreAllColumns(r, valid) ==
  LET all == [c \in DOMAIN r.vals |->
                r.vals[c] - (IF c \in DOMAIN valid THEN valid[c] ELSE 0)]
  IN  SumSq(all, DOMAIN all)

\* sq_diff_sum += candidates[f'{col}_Diff'] ** 2, over valid_targets
ScoreOf(r, valid) == SumSq(Diffs(r, valid), DOMAIN valid)

Scored(r, valid) ==
  [Year |-> r.Year, Month |-> r.Month, vals |-> r.vals,
   diffs |-> Diffs(r, valid), Score2 |-> ScoreOf(r, valid)]

InsertScore(sorted, x) ==
  LET n == Cardinality({i \in 1..Len(sorted) : sorted[i].Score2 <= x.Score2})
  IN  SubSeq(sorted, 1, n) \o <<x>> \o SubSeq(sorted, n + 1, Len(sorted))

RECURSIVE SortScoreFrom(_, _, _)
SortScoreFrom(rows, i, acc) ==
  IF i > Len(rows) THEN acc
  ELSE LET acc1 == InsertScore(acc, rows[i])
       IN  IF Len(acc1) >= 0 THEN SortScoreFrom(rows, i + 1, acc1) ELSE acc1

\* candidates.sort_values('Score')
SortScore(rows) == SortScoreFrom(rows, 1, <<>>)

HeadAll(rows, n) == rows

\* .head(top_n): the first n rows; for a negative n all but the last -n
HeadN(rows, n) ==
  IF n >= 0 THEN SubSeq(rows, 1, IF n < Len(rows) THEN n ELSE Len(rows))
  ELSE SubSeq(rows, 1, IF Len(rows) + n > 0 THEN Len(rows) + n ELSE 0)

DiffCols(valid) == {c \o "_Diff" : c \in DOMAIN valid}

\* return pd.DataFrame()
EmptyResult == [raised |-> FALSE, cols |-> {}, rows |-> <<>>]

\* df['Month'] on a frame without that column
KeyError == [raised |-> TRUE, cols |-> {}, rows |-> <<>>]

search_analog_years(d, q) ==
  IF "Month" \notin d.cols THEN KeyError
  ELSE
    LET candidates == MonthRows(d, q.month)
        required   == RequiredCols(d, q.targets)
        valid      == ValidTargets(d, q.targets)
        present    == DropNa(d, candidates, required)
        kept       == PhaseFilter(d, present, q.phase, q.threshold)
        scored     == [i \in 1..Len(kept) |-> Scored(kept[i], valid)]
    IN  IF NoValidTargets(valid) THEN EmptyResult
        ELSE IF kept = <<>> THEN EmptyResult
        ELSE [raised |-> FALSE,
              cols   |-> d.cols \cup DiffCols(valid) \cup {"Score"},
              rows   |-> HeadN(SortScore(scored), q.top_n)]

TableAliased(d, out) == [d EXCEPT !.cols = d.cols \cup out.cols]

\* the caller's table after the call: candidates is a .copy(), so the
\* Score and _Diff columns are written to the copy
TableAfterCall(d, out) == d

(***************************************************************************)
(* Tables and queries of the search specification                          *)
(***************************************************************************)
\* most rows of a table
MaxRows == 2
\* largest top_n
MaxTopN == 2

\* the (Year, Month) keys a table draws its rows from, ascending
SearchKeys == << <<1982, 11>>, <<1997, 11>>, <<1997, 12>> >>

\* the values a column takes, in hundredths: PDO on both sides of 0.5
ColValues(c) == IF c = "PDO" THEN {-50, 49, 50} ELSE {110, 120}

TableCols == {"ONI", "PDO"}

\* the cells of one row: at least one observation (a key enters data_map
\* only with a value)
RowVals ==
  UNION {{f \in [D -> ColValues("PDO") \cup ColValues("ONI")] :
            \A c \in D : f[c] \in ColValues(c)} : D \in (SUBSET TableCols) \ {{}}}

\* the table with the keys K (indices into SearchKeys) and cells g
TableOf(K, g) ==
  LET ks == SelectSeq([i \in 1..Len(SearchKeys) |-> i], LAMBDA i : i \in K)
  IN  IF K = {} THEN EmptyFrame
      ELSE [cols |-> {"Year", "Month"} \cup UNION {DOMAIN g[k] : k \in K},
            rows |-> [j \in 1..Len(ks) |->
                        [Year |-> SearchKeys[ks[j]][1], Month |-> SearchKeys[ks[j]][2],
                         vals |-> g[ks[j]]]]]

\* what get_climate_indices returns: sorted by (Year, Month), one row per
\* key, the columns that hold an observation; the empty frame included
Tables ==
  UNION {{TableOf(K, g) : g \in [K -> RowVals]} :
           K \in {K \in SUBSET (1..Len(SearchKeys)) : Cardinality(K) <= MaxRows}}

TargetChoices ==
  {f \in UNION {[D -> {0, 60, 100}] : D \in SUBSET {"ONI", "PDO", "NAO"}} :
     \A c \in DOMAIN f : f[c] = (CASE c = "ONI" -> 100 [] c = "PDO" -> 60 [] OTHER -> 0)}

Queries ==
  [month : {11}, targets : TargetChoices, phase : {"pos", "neg", "0", "none"},
   threshold : {0, 50}, top_n : 1..MaxTopN]

\* one call of search_analog_years on the table df
Search ==
  /\ pc = "search"
  /\ \E q \in Queries :
       LET out == search_analog_years(df, q)
       IN  /\ query' = q
           /\ result' = out
           /\ df' = TableAfterCall(df, out)
           /\ pc' = IF out.raised THEN "raised" ELSE "returned"
  /\ UNCHANGED <<todo, resp, data_map, log>>

InitSearch ==
  /\ pc = "search"
  /\ df \in Tables
  /\ todo = <<>>
  /\ resp = <<>>
  /\ data_map = <<>>
  /\ log = {}
  /\ query = NoQuery
  /\ result = NoResult

NextSearch == Search

\* search_analog_years on every table and query of the bounds
SpecSearch == InitSearch /\ [][NextSearch]_vars

(***************************************************************************)
(* Properties of search_analog_years (checked under SpecSearch)            *)
(***************************************************************************)
Returned == pc = "returned"

Min(a, b) == IF a < b THEN a ELSE b

\* the requested indices that are columns of the table
RequestedCols == (DOMAIN query.targets) \cap df.cols

\* sum over S of (value - target)^2, from the table's values
RECURSIVE SqDist(_, _, _)
SqDist(vals, targets, S) ==
  IF S = {} THEN 0
  ELSE LET c == CHOOSE x \in S : TRUE
       IN  (vals[c] - targets[c]) * (vals[c] - targets[c])
             + SqDist(vals, targets, S \ {c})

\* the row of the table a result row was derived from
SourceRowOf(r) ==
  \E i \in 1..Len(df.rows) :
     /\ df.rows[i].Year = r.Year
     /\ df.rows[i].Month = r.Month
     /\ df.rows[i].vals = r.vals

\* C1 as stated: every returned row has a Diff column for each index of the
\* target mapping, equal to value - target, and Score^2 is the sum of the
\* squared differences over exactly the indices of the target mapping.
C1_ScoreOverAllTargets ==
  Returned =>
    \A i \in 1..Len(result.rows) :
       LET r == result.rows[i]
       IN  /\ DOMAIN r.diffs = DOMAIN query.targets
           /\ (DOMAIN query.targets) \subseteq DOMAIN r.vals
           /\ \A c \in DOMAIN query.targets : r.diffs[c] = r.vals[c] - query.targets[c]
           /\ r.Score2 = SqDist(r.vals, query.targets, DOMAIN query.targets)

\* C1 amended: every returned row is a row of the table, has a Diff column
\* for exactly the indices of the target mapping that are columns of the
\* table, each equal to value - target, and Score^2 is the sum of the squared
\* differences over exactly those indices; no other index of the row enters.
C1_ScoreOverRequestedCols ==
  Returned =>
    \A i \in 1..Len(result.rows) :
       LET r == result.rows[i]
       IN  /\ SourceRowOf(r)
           /\ DOMAIN r.diffs = RequestedCols
           /\ \A c \in RequestedCols : r.diffs[c] = r.vals[c] - query.targets[c]
           /\ r.Score2 = SqDist(r.vals, query.targets, RequestedCols)

\* C1 witness: a row is returned that holds a value for an index outside the
\* target mapping, for a mapping that also names an index the table lacks.
C1_Witness ==
  /\ Returned
  /\ result.rows # <<>>
  /\ (DOMAIN query.targets) \ df.cols # {}
  /\ \E i \in 1..Len(result.rows) :
        /\ (DOMAIN result.rows[i].vals) \ (DOMAIN query.targets) # {}
        /\ result.rows[i].Score2 > 0

\* the phase rule of the specification
PhaseRule(p, phase, t) ==
  \/ phase = "pos" /\ p >= t
  \/ phase = "neg" /\ p <= 0 - t
  \/ phase = "0" /\ 0 - t < p /\ p < t
  \/ phase \notin {"pos", "neg", "0"}

\* the PDO conditions of eligibility
PdoEligible(r) ==
  "PDO" \in df.cols =>
     /\ "PDO" \in DOMAIN r.vals
     /\ PhaseRule(r.vals["PDO"], query.phase, query.threshold)

\* eligible candidates as C2 defines them: a value for every requested index
EligibleAsStated ==
  {i \in 1..Len(df.rows) :
     /\ df.rows[i].Month = query.month
     /\ (DOMAIN query.targets) \subseteq DOMAIN df.rows[i].vals
     /\ PdoEligible(df.rows[i])}

\* eligible candidates: a value for every requested index that is a column,
\* at least one requested index being a column
Eligible ==
  {i \in 1..Len(df.rows) :
     /\ RequestedCols # {}
     /\ df.rows[i].Month = query.month
     /\ RequestedCols \subseteq DOMAIN df.rows[i].vals
     /\ PdoEligible(df.rows[i])}

ScoreSorted ==
  \A i \in 1..Len(result.rows) : \A j \in 1..Len(result.rows) :
     i < j => result.rows[i].Score2 <= result.rows[j].Score2

\* C2 as stated: for a query with a non-empty target mapping, the returned
\* rows are in non-decreasing Score order and number min(top_n, E), E counting
\* the rows of the target month that have a value for every requested index,
\* have a PDO value when the table has a PDO column, and pass the phase filter.
C2_CountAsStated ==
  (Returned /\ DOMAIN query.targets # {}) =>
     /\ ScoreSorted
     /\ Len(result.rows) = Min(query.top_n, Cardinality(EligibleAsStated))

\* C2 amended: the same with E counting the rows that have a value for every
\* requested index that is a column of the table, and E = 0 when no
\* requested index is a column.
C2_SortedAndCounted ==
  Returned =>
     /\ ScoreSorted
     /\ Len(result.rows) = Min(query.top_n, Cardinality(Eligible))

\* C2 witness: more candidates are eligible than top_n allows, and the row
\* returned is a later row of the table than an eligible row left out.
C2_Witness ==
  /\ Returned
  /\ Cardinality(Eligible) > query.top_n
  /\ Len(result.rows) = query.top_n
  /\ \E i \in Eligible : df.rows[i].Year < result.rows[1].Year

InResult(r) ==
  \E i \in 1..Len(result.rows) :
     result.rows[i].Year = r.Year /\ result.rows[i].Month = r.Month

\* C3: in a table with a PDO column, for a non-negative threshold t, a
\* candidate row (target month, a value for every requested column and for
\* PDO) with PDO value p is kept iff p >= t under "pos", p <= -t under "neg",
\* -t < p < t under "0", and always under any other phase.  Kept rows are all
\* returned when top_n is at least the number of rows.
C3_PhaseFilter ==
  (Returned /\ "PDO" \in df.cols /\ RequestedCols # {} /\ query.threshold >= 0
     /\ query.top_n >= Len(df.rows)) =>
    \A i \in 1..Len(df.rows) :
       LET r == df.rows[i]
       IN  (r.Month = query.month
              /\ (RequestedCols \cup {"PDO"}) \subseteq DOMAIN r.vals) =>
             (InResult(r) <=>
                CASE query.phase = "pos" -> r.vals["PDO"] >= query.threshold
                  [] query.phase = "neg" -> r.vals["PDO"] <= 0 - query.threshold
                  [] query.phase = "0"   -> /\ 0 - query.threshold < r.vals["PDO"]
                                            /\ r.vals["PDO"] < query.threshold
                  [] OTHER               -> TRUE)

\* C3 witness: threshold 0.5, phase "pos": the row with PDO = 0.5 is returned
\* and the row with PDO = 0.49 is not.
C3_Witness ==
  /\ Returned
  /\ query.phase = "pos"
  /\ query.threshold = 50
  /\ query.top_n >= Len(df.rows)
  /\ \E i \in 1..Len(df.rows) : \E j \in 1..Len(df.rows) :
        /\ df.rows[i].Month = query.month
        /\ df.rows[j].Month = query.month
        /\ RequestedCols \subseteq DOMAIN df.rows[i].vals
        /\ RequestedCols \subseteq DOMAIN df.rows[j].vals
        /\ "PDO" \in DOMAIN df.rows[i].vals
        /\ "PDO" \in DOMAIN df.rows[j].vals
        /\ df.rows[i].vals["PDO"] = 50
        /\ df.rows[j].vals["PDO"] = 49
        /\ InResult(df.rows[i])
        /\ ~InResult(df.rows[j])

C5_NeverRaises == pc # "raised" /\ ~result.raised

\* C6: on a table that has rows, a query whose target mapping names only
\* indices that are not columns returns an empty result and does not raise.
C6_UnknownTargetsEmpty ==
  (pc # "search" /\ df.rows # <<>> /\ DOMAIN query.targets # {}
     /\ RequestedCols = {}) =>
    /\ pc = "returned"
    /\ ~result.raised
    /\ result.rows = <<>>
    /\ result.cols = {}

\* C6 witness: the call returned for targets = {NAO} on a table without NAO
\* that holds a row of the target month passing the PDO conditions.
C6_Witness ==
  /\ Returned
  /\ DOMAIN query.targets = {"NAO"}
  /\ "NAO" \notin df.cols
  /\ \E i \in 1..Len(df.rows) :
        df.rows[i].Month = query.month /\ PdoEligible(df.rows[i])
  /\ result.rows = <<>>

(***************************************************************************)
(* Properties of get_climate_indices (SpecParse: one block on every text   *)
(* of the pool; Spec: the nine blocks in the order of the code)            *)
(***************************************************************************)
Done == pc = "done"

\* the blocks that have run
Ran == {s \in DOMAIN resp : resp[s] # NoResp}

\* the observations of one index in a table, as (year, month, value)
Cells(d, name) ==
  {<<d.rows[i].Year, d.rows[i].Month, d.rows[i].vals[name]>> :
     i \in {j \in 1..Len(d.rows) : name \in DOMAIN d.rows[j].vals}}

\* the sentinel rules of the sources: the values that mean "missing"
StatedMissing(name, v) ==
  \/ name \in {"ONI", "IOD"} /\ v <= -90
  \/ name \in {"PDO", "NinoWest"} /\ v >= 90
  \/ name \in {"QBO30", "QBO50"} /\ v <= -900

\* the lines of the body that the block of source s is given to parse
BodyLines(s) ==
  IF resp[s].exc \/ (Sources[s].html /\ ~resp[s].pre) THEN <<>> ELSE resp[s].lines

\* month m of a line holds an observation of the index: a number that is no
\* sentinel
Observes(name, parts, m) ==
  /\ m + 1 <= Len(parts)
  /\ parts[m + 1].k \in {"digits", "int", "dec"}
  /\ ~StatedMissing(name, parts[m + 1].v)

\* the first token is read as an integer: all digits, or in the PDO block
\* anything int() accepts
YearToken(name, t) ==
  IF name = "PDO" THEN t.k \in {"digits", "int"} ELSE t.k = "digits"

\* a data row as the specification defines it: the first token parses as an
\* integer >= start_year and the line has at least 13 tokens
StatedRow(name, lines, i) ==
  /\ Len(lines[i]) >= 13
  /\ YearToken(name, lines[i][1])
  /\ lines[i][1].v >= start_year

\* a PDO line that ends the parsing of PDO: 13 tokens or more, no "Year" in
\* it, and a first token that is no integer
EndsPdo(parts) ==
  /\ Len(parts) >= 13
  /\ \A k \in 1..Len(parts) : ~(parts[k].k = "word" /\ parts[k].v = 1)
  /\ parts[1].k \notin {"digits", "int"}

\* a data row as each block defines it
BlockRow(name, lines, i) ==
  LET parts == lines[i]
  IN  /\ Len(parts) >= 1
      /\ YearToken(name, parts[1])
      /\ parts[1].v >= start_year
      /\ CASE name \in {"ONI", "IOD"} -> Len(parts) >= 13
           [] name = "PDO" ->
                /\ Len(parts) >= 13
                /\ \A k \in 1..Len(parts) : ~(parts[k].k = "word" /\ parts[k].v = 1)
                /\ \A j \in 1..i : ~EndsPdo(lines[j])
           [] OTHER -> TRUE

\* the table holds for source s exactly the observations of its data rows
\* (by the stated rule or by the rule of its block), the last row of a year
\* winning
CellsAreRowsOf(s, stated) ==
  LET name  == Sources[s].name
      lines == BodyLines(s)
      from(y, m) == {i \in 1..Len(lines) :
                       /\ IF stated THEN StatedRow(name, lines, i)
                                    ELSE BlockRow(name, lines, i)
                       /\ lines[i][1].v = y
                       /\ Observes(name, lines[i], m)}
      years == {lines[i][1].v :
                  i \in {j \in 1..Len(lines) :
                           /\ Len(lines[j]) >= 1
                           /\ lines[j][1].k \in {"digits", "int"}}}
  IN  /\ \A c \in Cells(df, name) : c[1] \in years /\ c[2] \in 1..12
      /\ \A y \in years : \A m \in 1..12 :
            IF from(y, m) = {}
            THEN \A c \in Cells(df, name) : ~(c[1] = y /\ c[2] = m)
            ELSE LET last == CHOOSE i \in from(y, m) : \A j \in from(y, m) : j <= i
                 IN  <<y, m, lines[last][m + 1].v>> \in Cells(df, name)

C9_StrictlyAscending ==
  /\ \A i \in 1..Len(df.rows) : df.rows[i].Month \in 1..12
  /\ \A i \in 1..Len(df.rows) : \A j \in 1..Len(df.rows) :
        i < j => \/ df.rows[i].Year < df.rows[j].Year
                 \/ /\ df.rows[i].Year = df.rows[j].Year
                    /\ df.rows[i].Month < df.rows[j].Month

\* C9 witness: the table is built from a map whose keys were inserted out
\* of order, with a year given by several sources.
C9_Witness ==
  /\ Done
  /\ \E i \in 1..Len(data_map) : \E j \in 1..Len(data_map) :
        i < j /\ data_map[i].key[1] > data_map[j].key[1]
  /\ \E i \in 1..Len(df.rows) : Cardinality(DOMAIN df.rows[i].vals) >= 2

\* a source's step failed: no response, a response that is not 200, or an
\* exception while parsing
Failed(s) == resp[s].exc \/ resp[s].status # 200 \/ s \in log

\* the observations source s yields when it is parsed alone
AloneCells(s) ==
  Cells(Frame(SourceBlock(<<>>, Sources[s], resp[s], start_year).dm), Sources[s].name)

\* the observations of one index in the map
MapCells(name) ==
  {<<data_map[i].key[1], data_map[i].key[2], data_map[i].vals[name]>> :
     i \in {j \in 1..Len(data_map) : name \in DOMAIN data_map[j].vals}}

\* C10 as stated: once a source's fetch-and-parse step has failed, neither
\* the map nor the returned table holds an observation of that source, and
\* in the returned table every other source's observations are those of its
\* own text.
C10_FailureIsolated ==
  \A s \in Ran :
     Failed(s) =>
        /\ MapCells(Sources[s].name) = {}
        /\ Cells(df, Sources[s].name) = {}
        /\ Done => \A o \in (1..NSources) \ {s} :
                      ~Failed(o) => Cells(df, Sources[o].name) = AloneCells(o)

(***************************************************************************)
(* Graceful degradation of search_analog_years (SpecSearch)                *)
(***************************************************************************)
\* the target mapping without the index c
Without(targets, c) == [k \in (DOMAIN targets) \ {c} |-> targets[k]]

\* the requested indices that are not columns of the table
UnknownTargets == (DOMAIN query.targets) \ df.cols

\* C11: when the target mapping holds an index that is a column of the table,
\* an index of the mapping that is not a column changes nothing: the call
\* returns, and its result (the rows, their order, their Score and Diff
\* columns) is the result of the same query without that index; no Score
\* counts the index and no row is dropped for lacking it.
C11_UnknownIndexIgnored ==
  (pc # "search" /\ RequestedCols # {}) =>
    \A c \in UnknownTargets :
       /\ pc = "returned"
       /\ result = search_analog_years(df, [query EXCEPT !.targets = Without(query.targets, c)])
       /\ \A i \in 1..Len(result.rows) :
             /\ c \notin DOMAIN result.rows[i].diffs
             /\ c \notin DOMAIN result.rows[i].vals
             /\ result.rows[i].Score2 = SqDist(result.rows[i].vals, query.targets, RequestedCols)

\* C11 witness: targets = {ONI, NAO} on a table with ONI and without NAO
\* returned two rows, the later row of the table first.
C11_Witness ==
  /\ Returned
  /\ DOMAIN query.targets = {"ONI", "NAO"}
  /\ "ONI" \in df.cols
  /\ "NAO" \notin df.cols
  /\ Len(result.rows) = 2
  /\ result.rows[1].Year > result.rows[2].Year
  /\ result.rows[1].Score2 < result.rows[2].Score2

(***************************************************************************)
(* Order of the fetch-and-parse blocks (SpecOrder)                         *)
(***************************************************************************)
\* the map the blocks build from the same responses in the order of the code
RECURSIVE InCodeOrder(_, _)
InCodeOrder(dm, s) ==
  IF s > NSources THEN dm
  ELSE LET dm1 == SourceBlock(dm, Sources[s], resp[s], start_year).dm
       IN  IF Len(dm1) >= 0 THEN InCodeOrder(dm1, s + 1) ELSE dm1

\* the (year, month) keys of a map, and the cells under one key
MapKeys(dm) == {dm[i].key : i \in 1..Len(dm)}
MapVals(dm, key) == dm[CHOOSE i \in 1..Len(dm) : dm[i].key = key].vals

====
